---- MODULE Spec2Model ----
(***************************************************************************)
(* Quadrature-based ("predictive") deep Gaussian process:                  *)
(* gpytorch/models/deep_gps/predictive_deep_gp.py.                         *)
(*                                                                         *)
(* Five state machines share this module:                                  *)
(*   SpecLayer     one AbstractPredictiveDeepGPLayer: construction,        *)
(*                 training of xi, reads of quad_grid                      *)
(*   SpecCall      one layer: construction and __call__                    *)
(*   SpecLik       one layer and one likelihood (single-task or            *)
(*                 multitask): construction, reads of the grid             *)
(*   SpecMarginal  one likelihood: construction, training of the weights,  *)
(*                 log_marginal                                            *)
(*   SpecKL        one AbstractDeepGP container and its                    *)
(*                 _DeepGPVariationalStrategy: module tree, memo, KL sum   *)
(*                                                                         *)
(* Number representation.                                                  *)
(*   Grid abscissae are fixed-point integers in units of 1/20000 (the      *)
(*   Gauss-Hermite nodes rounded to 4 decimals), so that the factor 0.5    *)
(*   of the flipgrid initialisation is exact.                              *)
(*   A log-domain number is represented by the positive rational it is     *)
(*   the logarithm of, <<num, den>> in lowest terms: log(a) + log(b) is    *)
(*   the product, log(a) - log(b) the quotient and logsumexp the sum of    *)
(*   the represented rationals.  The Gauss-Hermite weights are rounded to  *)
(*   2 decimals.                                                           *)
(*   A tensor whose values no operation of the model looks at is           *)
(*   represented by its shape, a sequence of naturals.                     *)
(***************************************************************************)
EXTENDS Integers, Sequences, FiniteSets, TLC

VARIABLES
    assertsOn,        \* the interpreter executes assert statements (no -O)
    debug,            \* settings.debug.on()
    layerState,       \* "none" | "ok" | the exception __init__ raised
    grid_strategy,    \* self.grid_strategy
    num_sample_sites, \* self.num_sample_sites
    sample_site_dims, \* self.sample_site_dims
    input_dims,       \* self.input_dims
    output_dims,      \* self.output_dims (NoneDims for None)
    xi,               \* self.xi, a Q x T matrix
    xiInit,           \* the value __init__ gave self.xi
    xiShared,         \* xi was passed in by the caller
    trainSteps,       \* optimizer steps taken on xi
    qgRead,           \* outcome of the last read of quad_grid
    callRes,          \* outcome of the last __call__
    likState,         \* "none" | "ok" | the exception __init__ raised
    likClass,         \* which likelihood class was built
    likDims,          \* dims argument of the likelihood
    likSites,         \* likelihood's self.num_sample_sites
    likStrategy,      \* grid_strategy argument of the likelihood
    raw_quad_weight_grid, \* the likelihood's parameter, a vector of log values
    lmRes,            \* outcome of the last log_marginal
    children,         \* module tree of the container: id -> sequence of child ids
    isApproxGP,       \* id -> isinstance(module, ApproximateGP)
    klOf,             \* id -> strategy.kl_divergence().sum() of that module
    memo,             \* _sub_variational_strategies_memo ([has |-> FALSE] if unset)
    firstRead,        \* the collection the first read returned
    klRes,            \* outcome of the last kl_divergence()
    mutations         \* structural changes made to the container so far

layerVars == <<layerState, grid_strategy, num_sample_sites, sample_site_dims,
               input_dims, output_dims, xi, xiInit, xiShared, trainSteps, qgRead>>
callVars == <<callRes>>
likVars == <<likState, likClass, likDims, likSites, likStrategy,
             raw_quad_weight_grid, lmRes>>
klVars == <<children, isApproxGP, klOf, memo, firstRead, klRes, mutations>>
vars == <<assertsOn, debug, layerVars, callVars, likVars, klVars>>

(***************************************************************************)
(* Bounds of the model                                                     *)
(***************************************************************************)
MaxQ == 3
MaxT == 2
MaxN == 2
MaxTrain == 1
MaxModules == 3
MaxMutations == 4

NoneDims == -1

Strategies == {"flipgrid", "freegrid", "freeform"}

(***************************************************************************)
(* Arithmetic helpers                                                      *)
(***************************************************************************)
RECURSIVE Pow(_, _)
Pow(b, e) == IF e = 0 THEN 1 ELSE b * Pow(b, e - 1)

RECURSIVE SumSeq(_)
SumSeq(s) == IF s = <<>> THEN 0 ELSE Head(s) + SumSeq(Tail(s))

RECURSIVE Flatten(_)
Flatten(ss) == IF ss = <<>> THEN <<>> ELSE Head(ss) \o Flatten(Tail(ss))

(***************************************************************************)
(* Matrices: [rows, cols, d] with d[k][j], 1-based                         *)
(***************************************************************************)
Mat(q, t, f(_, _)) ==
    [rows |-> q, cols |-> t, d |-> [k \in 1..q |-> [j \in 1..t |-> f(k, j)]]]

\* numpy.polynomial.hermite.hermgauss(deg)[0]: the nodes, ascending, in units
\* of 1/20000.  deg <= 0 raises ValueError (see HermgaussRaises).
HermgaussX(deg) ==
    CASE deg = 1 -> <<0>>
      [] deg = 2 -> <<-14142, 14142>>
      [] deg = 3 -> <<-24494, 0, 24494>>
      [] deg = 4 -> <<-33014, -10492, 10492, 33014>>

HermgaussRaises(deg) == deg <= 0

\* torch.from_numpy(xi).float().unsqueeze(-1).repeat(1, T): column j is a
\* copy of the node vector.
RepeatCols(v, t) == Mat(Len(v), t, LAMBDA k, j: v[k])

\* 0.5 * tensor, element-wise (entries are even in the chosen unit)
Half(m) == Mat(m.rows, m.cols, LAMBDA k, j: m.d[k][j] \div 2)

\* tensor.flip(dims=[0]): the rows in reverse order
FlipRot(m) == Mat(m.rows, m.cols, LAMBDA k, j: m.d[(k % m.rows) + 1][j])
Flip(m) == Mat(m.rows, m.cols, LAMBDA k, j: m.d[m.rows + 1 - k][j])

\* a - b, element-wise, equal shapes
MatSub(a, b) == Mat(a.rows, a.cols, LAMBDA k, j: a.d[k][j] - b.d[k][j])

\* tensor.t(): the sequence of the T columns, each a sequence of Q values;
\* this is what `*xi.t()` unpacks.
Columns(m) == [j \in 1..m.cols |-> [k \in 1..m.rows |-> m.d[k][j]]]

\* itertools.product(*seqs): tuples in lexicographic order, the last
\* position varying fastest.
RECURSIVE ProductFirstFastest(_)
ProductFirstFastest(seqs) ==
    IF seqs = <<>> THEN << <<>> >>
    ELSE LET n == Len(seqs)
             rest == ProductFirstFastest(SubSeq(seqs, 1, n - 1))
             last == seqs[n]
         IN Flatten([i \in 1..Len(last) |->
                        [r \in 1..Len(rest) |-> Append(rest[r], last[i])]])
RECURSIVE Product(_)
Product(seqs) ==
    IF seqs = <<>> THEN << <<>> >>
    ELSE LET rest == Product(Tail(seqs))
             first == Head(seqs)
         IN Flatten([i \in 1..Len(first) |->
                        [r \in 1..Len(rest) |-> <<first[i]>> \o rest[r]]])

(***************************************************************************)
(* AbstractPredictiveDeepGPLayer.__init__                                  *)
(***************************************************************************)
\* torch.randn(Q, T): the draws the model enumerates, one per seed
RandnMat(q, t, seed) == Mat(q, t, LAMBDA k, j: (2 * seed - 3) * (3000 * k + 700 * j))
RandnSeeds == {1, 2}

Rows(m) == [k \in 1..m.rows |-> m.d[k]]

NoXi == Mat(0, 0, LAMBDA k, j: 0)
\* The record of one __call__: how it ended and what it computed on the way.
NoCall ==
    [status |-> "none", stage |-> "none",
     inKind |-> "none", inShape |-> <<>>, others |-> <<>>, expand |-> TRUE,
     dbg |-> FALSE,
     gridStatus |-> "skipped",      \* outcome of the read of self.quad_grid
     catDone |-> FALSE, catShape |-> <<>>,
     reachedCheck |-> FALSE,        \* execution reached line 107
     finalIsTensor |-> FALSE, finalShape |-> <<>>,
     msgGot |-> NoneDims, msgExpected |-> NoneDims, msgNamesType |-> FALSE,
     gpInvoked |-> FALSE,
     outKind |-> "none", outShape |-> <<>>]
NoLm == [status |-> "none", shape |-> <<>>, value |-> <<>>, base |-> NoXi,
         weights |-> <<>>]
NoRead == [status |-> "none", value |-> <<>>, shape |-> <<>>, xi |-> NoXi]

\* The xi the constructor would create itself (lines 54-61), for one draw of
\* torch.randn.
FreegridXi(q, t) == RepeatCols(HermgaussX(q), t)
FlipgridXi(q, t) == Half(RepeatCols(HermgaussX(q), t))

OwnXi(strategy, q, t, seed) ==
    CASE strategy = "freegrid" -> FreegridXi(q, t)
      [] strategy = "flipgrid" -> FlipgridXi(q, t)
      [] strategy = "freeform" -> RandnMat(q, t, seed)

\* hermgauss(num_sample_sites) is called for the two grid strategies only
InitRaises(strategy, q, shared) ==
    /\ ~shared
    /\ strategy \in {"freegrid", "flipgrid"}
    /\ HermgaussRaises(q)

\* A shared xi is the xi of a previous layer built with the same order and
\* sample-site dimension (line 48); its values are those of any strategy.
SharedXis(q, t) ==
    IF q = 0 THEN {Mat(0, t, LAMBDA k, j: 0)}
    ELSE {FlipgridXi(q, t), RandnMat(q, t, 1)}

LayerInit(strategy, q, inDims, ssdArg, outDims, shared, seed) ==
    LET t == IF ssdArg = NoneDims THEN inDims ELSE ssdArg IN
    /\ layerState = "none"
    /\ IF InitRaises(strategy, q, shared)
       THEN /\ layerState' = "ValueError"
            /\ grid_strategy' = strategy
            /\ num_sample_sites' = q
            /\ sample_site_dims' = t
            /\ input_dims' = inDims
            /\ output_dims' = outDims
            /\ xi' = NoXi
            /\ xiInit' = NoXi
            /\ xiShared' = FALSE
       ELSE /\ layerState' = "ok"
            /\ grid_strategy' = strategy
            /\ num_sample_sites' = q
            /\ sample_site_dims' = t
            /\ input_dims' = inDims
            /\ output_dims' = outDims
            /\ xiShared' = shared
            /\ \E x \in (IF shared THEN SharedXis(q, t)
                         ELSE {OwnXi(strategy, q, t, seed)}) :
                  /\ xi' = x
                  /\ xiInit' = x
    /\ trainSteps' = 0
    /\ qgRead' = NoRead
    /\ callRes' = NoCall
    /\ UNCHANGED <<assertsOn, debug, likVars, klVars>>

\* An optimizer step on the parameter xi: one entry moves by 0.1.
TrainXi(k, j) ==
    /\ layerState = "ok"
    /\ trainSteps < MaxTrain
    /\ k \in 1..xi.rows /\ j \in 1..xi.cols
    /\ xi' = [xi EXCEPT !.d[k][j] = @ + 2000]
    /\ trainSteps' = trainSteps + 1
    /\ UNCHANGED <<assertsOn, debug, layerState, grid_strategy, num_sample_sites,
                   sample_site_dims, input_dims, output_dims, xiInit, xiShared,
                   qgRead, callVars, likVars, klVars>>

(***************************************************************************)
(* AbstractPredictiveDeepGPLayer.quad_grid                                 *)
(***************************************************************************)
\* torch.stack([torch.cat([p.unsqueeze(-1) for p in xi]) for xi in
\* product(*xi.t())]): one point per tuple of the product; torch.stack of an
\* empty list raises RuntimeError.  Then the assert statement: its right-hand
\* side reads self.self, which torch.nn.Module.__getattr__ answers with
\* AttributeError; the statement is skipped when asserts are not executed.
StackPointsReversed(x) == ProductFirstFastest(Columns(x))
StackPoints(x) == Product(Columns(x))

GridBranch(x) ==
    LET res == StackPoints(x) IN
    IF res = <<>> THEN [status |-> "RuntimeError", value |-> <<>>, shape |-> <<>>]
    ELSE IF assertsOn THEN [status |-> "AttributeError", value |-> <<>>, shape |-> <<>>]
    ELSE [status |-> "ok", value |-> res, shape |-> <<Len(res), x.cols>>]

FlipTransform(x) == MatSub(x, Flip(x))

QuadGrid ==
    CASE grid_strategy = "flipgrid" -> GridBranch(FlipTransform(xi))
      [] grid_strategy = "freegrid" -> GridBranch(xi)
      [] grid_strategy = "freeform" ->
            [status |-> "ok", value |-> Rows(xi), shape |-> <<xi.rows, xi.cols>>]

ReadQuadGrid ==
    /\ layerState = "ok"
    /\ qgRead' = [status |-> QuadGrid.status, value |-> QuadGrid.value,
                  shape |-> QuadGrid.shape, xi |-> xi]
    /\ UNCHANGED <<assertsOn, debug, layerState, grid_strategy, num_sample_sites,
                   sample_site_dims, input_dims, output_dims, xi, xiInit,
                   xiShared, trainSteps, callVars, likVars, klVars>>

(***************************************************************************)
(* Tensor shapes                                                           *)
(***************************************************************************)
Last(s) == s[Len(s)]
Front(s) == SubSeq(s, 1, Len(s) - 1)

\* tensor.unsqueeze(dim) on a shape; dim may be negative.  The callers below
\* only use dims that are in range for their tensors.
Unsqueeze(shape, dim) ==
    LET at == IF dim < 0 THEN dim + Len(shape) + 1 ELSE dim   \* 0-based
    IN SubSeq(shape, 1, at) \o <<1>> \o SubSeq(shape, at + 1, Len(shape))

\* Broadcasting of two shapes, aligned at the right; missing leading axes
\* count as 1.
PadLeft(shape, n) == [i \in 1..(n - Len(shape)) |-> 1] \o shape
Max2(a, b) == IF a >= b THEN a ELSE b
Broadcastable(a, b) ==
    LET n == Max2(Len(a), Len(b))
        pa == PadLeft(a, n)
        pb == PadLeft(b, n)
    IN \A i \in 1..n : pa[i] = pb[i] \/ pa[i] = 1 \/ pb[i] = 1
Broadcast(a, b) ==
    LET n == Max2(Len(a), Len(b))
        pa == PadLeft(a, n)
        pb == PadLeft(b, n)
    IN [i \in 1..n |-> IF pa[i] = 1 THEN pb[i] ELSE pa[i]]

\* torch.cat(tensors, dim=-1): same number of axes and the same sizes on all
\* axes but the last, else RuntimeError.
CatOk(shapes) ==
    \A i \in 1..Len(shapes) :
        /\ Len(shapes[i]) = Len(shapes[1])
        /\ Front(shapes[i]) = Front(shapes[1])
CatShape(shapes) ==
    Front(shapes[1]) \o <<SumSeq([i \in 1..Len(shapes) |-> Last(shapes[i])])>>

\* tensor.transpose(-1, -2) on a shape of at least two axes
TransposeLast2(shape) ==
    LET n == Len(shape)
    IN SubSeq(shape, 1, n - 2) \o <<shape[n], shape[n - 1]>>

(***************************************************************************)
(* AbstractPredictiveDeepGPLayer.__call__                                  *)
(*                                                                         *)
(* inp is [kind, shape]: "mvn" a MultitaskMultivariateNormal whose mean    *)
(* has that shape, "tensor" a torch tensor, "other" any other object (it   *)
(* has no tensor methods).  others is the sequence of the shapes of        *)
(* *other_inputs.  Each stage takes the record so far and the value of the *)
(* local variable `inputs` ([isTensor, shape]).                            *)
(***************************************************************************)
Raise(r, exc, stage) == [r EXCEPT !.status = exc, !.stage = stage]

\* lines 127-135: wrap the GP's output
CallPost(r, loc) ==
    IF num_sample_sites > 0
    THEN IF output_dims # NoneDims
         THEN [r EXCEPT !.status = "ok", !.stage = "return",
                        !.outKind = "MultitaskMultivariateNormal",
                        !.outShape = TransposeLast2(loc)]
         ELSE [r EXCEPT !.status = "ok", !.stage = "return",
                        !.outKind = "MultivariateNormal", !.outShape = loc]
    ELSE IF Len(loc) < 2
         THEN Raise(r, "IndexError", "post")
         ELSE [r EXCEPT !.status = "ok", !.stage = "return",
                        !.outKind = "Tensor", !.outShape = TransposeLast2(loc)]

\* line 125: ApproximateGP.__call__ on a tensor of shape (..., N, D) returns
\* a MultivariateNormal whose loc has shape (..., N); it starts by calling
\* inputs.dim(), which an object that is no tensor does not have.
CallGP(r, cur) ==
    LET r1 == [r EXCEPT !.gpInvoked = TRUE] IN
    IF ~cur.isTensor THEN Raise(r1, "AttributeError", "gp")
    ELSE CallPost(r1, Front(cur.shape))

\* lines 121-123: replicate the input for every output dimension
CallReplicate(r, cur) ==
    IF output_dims = NoneDims THEN CallGP(r, cur)
    ELSE IF ~cur.isTensor THEN Raise(r, "AttributeError", "replicate")
    ELSE LET u == Unsqueeze(cur.shape, -3)
             at == Len(u) - 2
         IN CallGP(r, [isTensor |-> TRUE,
                       shape |-> [u EXCEPT ![at] = output_dims]])

\* lines 107-118: the checks of debug mode.  The message of the type check
\* reads inputs.__class__.__Name__, an attribute no class has, so building
\* the message raises AttributeError before ValueError can be raised.
CallDebugNoShapeCheck(r, cur) ==
    LET r1 == [r EXCEPT !.reachedCheck = TRUE, !.finalIsTensor = cur.isTensor,
                        !.finalShape = cur.shape] IN
    IF ~r.dbg THEN CallReplicate(r1, cur)
    ELSE IF ~cur.isTensor THEN Raise(r1, "AttributeError", "debug_type")
    ELSE CallReplicate(r1, cur)
CallDebug(r, cur) ==
    LET r1 == [r EXCEPT !.reachedCheck = TRUE, !.finalIsTensor = cur.isTensor,
                        !.finalShape = cur.shape] IN
    IF ~r.dbg THEN CallReplicate(r1, cur)
    ELSE IF ~cur.isTensor THEN Raise(r1, "AttributeError", "debug_type")
    ELSE IF Last(cur.shape) # input_dims
         THEN [Raise(r1, "RuntimeError", "debug_shape")
                  EXCEPT !.msgGot = Last(cur.shape), !.msgExpected = input_dims]
    ELSE CallReplicate(r1, cur)

\* lines 99-105: expand the other inputs over num_sample_sites and
\* concatenate.  torch.cat raises TypeError on an element that is no tensor.
CallCat(r, cur) ==
    IF r.others = <<>> THEN CallDebug(r, cur)
    ELSE IF ~cur.isTensor THEN Raise(r, "TypeError", "cat")
    ELSE LET processed == [i \in 1..Len(r.others) |->
                              <<num_sample_sites>> \o r.others[i]]
             all == <<cur.shape>> \o processed
         IN IF ~CatOk(all) THEN Raise(r, "RuntimeError", "cat")
            ELSE CallDebug([r EXCEPT !.catDone = TRUE, !.catShape = CatShape(all)],
                           [isTensor |-> TRUE, shape |-> CatShape(all)])

\* lines 79-97: quadrature expansion of a distribution input
CallExpand(r) ==
    IF r.inKind = "mvn"
    THEN LET xi_mus == IF r.expand THEN Unsqueeze(r.inShape, -3) ELSE r.inShape
             g == QuadGrid
             r1 == [r EXCEPT !.gridStatus = g.status]
         IN IF g.status # "ok" THEN Raise(r1, g.status, "quad_grid")
            ELSE LET qg == Unsqueeze(g.shape, -2) IN
                 IF ~Broadcastable(xi_mus, qg)
                 THEN Raise(r1, "RuntimeError", "broadcast")
                 ELSE CallCat(r1, [isTensor |-> TRUE, shape |-> Broadcast(xi_mus, qg)])
    ELSE CallCat(r, [isTensor |-> r.inKind = "tensor", shape |-> r.inShape])

\* callRes holds the outcome of a call until the caller has taken it (Return).
Call(inp, others, expand) ==
    /\ layerState = "ok"
    /\ callRes.status = "none"
    /\ callRes' = CallExpand([NoCall EXCEPT !.inKind = inp.kind, !.inShape = inp.shape,
                                            !.others = others, !.expand = expand,
                                            !.dbg = debug])
    /\ UNCHANGED <<assertsOn, debug, layerVars, likVars, klVars>>

\* The caller takes the value returned, or handles the exception raised.
Return ==
    /\ callRes.status # "none"
    /\ callRes' = NoCall
    /\ UNCHANGED <<assertsOn, debug, layerVars, likVars, klVars>>

\* `with settings.debug(b):`
SetDebug(b) ==
    /\ debug # b
    /\ debug' = b
    /\ UNCHANGED <<assertsOn, layerVars, callVars, likVars, klVars>>

CallInputs ==
    {[kind |-> "mvn", shape |-> <<n, t>>] : n \in 1..MaxN, t \in 1..MaxT}
    \cup {[kind |-> "tensor", shape |-> <<n, d>>] : n \in 1..MaxN, d \in 1..(MaxT + 1)}
    \cup {[kind |-> "other", shape |-> <<>>]}

\* other_inputs: none, one covariate column, or a column and a pair
OtherInputs(n) == { <<>>, << <<n, 1>> >>, << <<n, 1>>, <<n, 2>> >> }

BatchOf(inp) == IF inp.kind = "other" THEN 1 ELSE inp.shape[1]

(***************************************************************************)
(* Log-domain numbers: <<num, den>>, the positive rational whose logarithm *)
(* the number is, in lowest terms (<<0, 1>> stands for -inf, the logsumexp *)
(* of nothing)                                                             *)
(***************************************************************************)
RECURSIVE Gcd(_, _)
Gcd(a, b) == IF b = 0 THEN a ELSE Gcd(b, a % b)

Rat(n, d) == LET g == Gcd(n, d) IN <<n \div g, d \div g>>

\* x + y of two log values: the product of the rationals
LogAdd(x, y) ==
    LET g1 == Gcd(x[1], y[2])
        g2 == Gcd(y[1], x[2])
    IN <<(x[1] \div g1) * (y[1] \div g2), (x[2] \div g2) * (y[2] \div g1)>>

\* x - y of two log values: the quotient of the rationals
LogSub(x, y) == LogAdd(x, <<y[2], y[1]>>)

\* log(exp(x) + exp(y)): the sum of the rationals
LogAddExp(x, y) ==
    LET g == Gcd(x[2], y[2])
        l == (x[2] \div g) * y[2]
    IN Rat(x[1] * (l \div x[2]) + y[1] * (l \div y[2]), l)

\* The folds split the sequence in halves, which keeps the recursion shallow.
RECURSIVE LogSumSeq(_)
LogSumSeq(s) ==
    IF s = <<>> THEN <<1, 1>>
    ELSE IF Len(s) = 1 THEN s[1]
    ELSE LET h == Len(s) \div 2
         IN LogAdd(LogSumSeq(SubSeq(s, 1, h)), LogSumSeq(SubSeq(s, h + 1, Len(s))))

RECURSIVE LogSumExpSeq(_)
LogSumExpSeq(s) ==
    IF s = <<>> THEN <<0, 1>>
    ELSE IF Len(s) = 1 THEN s[1]
    ELSE LET h == Len(s) \div 2
         IN LogAddExp(LogSumExpSeq(SubSeq(s, 1, h)),
                      LogSumExpSeq(SubSeq(s, h + 1, Len(s))))

(***************************************************************************)
(* DeepPredictiveGaussianLikelihood and                                    *)
(* MultitaskDeepPredictiveGaussianLikelihood                               *)
(***************************************************************************)
\* numpy.polynomial.hermite.hermgauss(deg)[1]: the weights, in hundredths
HermgaussW(deg) ==
    CASE deg = 1 -> <<177>>
      [] deg = 2 -> <<89, 89>>
      [] deg = 3 -> <<30, 118, 30>>
      [] deg = 4 -> <<8, 80, 80, 8>>

\* np.log(weights)
NpLog(ws) == [k \in 1..Len(ws) |-> Rat(ws[k], 100)]

\* torch.stack([torch.tensor(a) for a in product(*[np.log(weights) for _ in
\* range(dims)])]), then .sum(dim=-1): one log weight per tuple.
SumLastDim(tuples) == [i \in 1..Len(tuples) |-> LogSumSeq(tuples[i])]
GridWeights(q, dims) ==
    SumLastDim(Product([d \in 1..dims |-> NpLog(HermgaussW(q))]))

\* torch.randn(num_sample_sites): the draws the model enumerates
RandnVec(q, seed) == [k \in 1..q |-> Rat(k + seed, 2 + seed)]

LikClasses == {"DeepPredictiveGaussianLikelihood",
               "MultitaskDeepPredictiveGaussianLikelihood"}

\* __init__ of either class (lines 152-166 and 186-200 are the same code)
LikInit(class, dims, q, strategy, seed) ==
    /\ likState = "none"
    /\ likClass' = class
    /\ likDims' = dims
    /\ likSites' = q
    /\ likStrategy' = strategy
    /\ IF strategy \in {"flipgrid", "freegrid"}
       THEN IF HermgaussRaises(q)
            THEN likState' = "ValueError" /\ raw_quad_weight_grid' = <<>>
            ELSE likState' = "ok" /\ raw_quad_weight_grid' = GridWeights(q, dims)
       ELSE likState' = "ok" /\ raw_quad_weight_grid' = RandnVec(q, seed)
    /\ lmRes' = NoLm
    /\ UNCHANGED <<assertsOn, debug, layerVars, callVars, klVars>>

\* quad_weight_grid: qwd - qwd.logsumexp(dim=-1)
QuadWeightGrid ==
    LET qwd == raw_quad_weight_grid
        lse == LogSumExpSeq(qwd)
    IN [k \in 1..Len(qwd) |-> LogSub(qwd[k], lse)]

\* An optimizer step on raw_quad_weight_grid: entry k grows by log(2).  The
\* steps enumerated move one of the first MaxQ entries.
TrainWeights(k) ==
    /\ likState = "ok"
    /\ lmRes.status = "none"
    /\ trainSteps < MaxTrain
    /\ k \in 1..Len(raw_quad_weight_grid)
    /\ raw_quad_weight_grid' =
          [raw_quad_weight_grid EXCEPT ![k] = LogAdd(@, <<2, 1>>)]
    /\ trainSteps' = trainSteps + 1
    /\ UNCHANGED <<assertsOn, debug, layerState, grid_strategy, num_sample_sites,
                   sample_site_dims, input_dims, output_dims, xi, xiInit, xiShared,
                   qgRead, callVars, likState, likClass, likDims, likSites,
                   likStrategy, lmRes, klVars>>

\* vector.unsqueeze(-1): an S x 1 matrix
UnsqueezeLast(v) == Mat(Len(v), 1, LAMBDA k, j: v[k])

\* a + b of two matrices of log values, with broadcasting
MatShape(m) == <<m.rows, m.cols>>
BroadcastAdd(a, b) ==
    LET sh == Broadcast(MatShape(a), MatShape(b))
    IN Mat(sh[1], sh[2],
           LAMBDA k, j: LogAdd(a.d[IF a.rows = 1 THEN 1 ELSE k][IF a.cols = 1 THEN 1 ELSE j],
                               b.d[IF b.rows = 1 THEN 1 ELSE k][IF b.cols = 1 THEN 1 ELSE j]))

\* matrix.logsumexp(dim): dim -2 reduces the rows, dim -1 the columns
LogSumExpDim(m, dim) ==
    IF dim = -2
    THEN [j \in 1..m.cols |-> LogSumExpSeq([k \in 1..m.rows |-> m.d[k][j]])]
    ELSE [k \in 1..m.rows |-> LogSumExpSeq([j \in 1..m.cols |-> m.d[k][j]])]

\* log_marginal, given the value base of super().log_marginal(observations,
\* function_dist): lines 173-180 and, the same code, lines 207-214.
LogMarginalOverObservations(base) ==
    LET w == UnsqueezeLast(QuadWeightGrid) IN
    IF ~Broadcastable(MatShape(w), MatShape(base))
    THEN [status |-> "RuntimeError", shape |-> <<>>, value |-> <<>>]
    ELSE LET deep_log_marginal == BroadcastAdd(w, base)
             deep_log_prob == LogSumExpDim(deep_log_marginal, -1)
         IN [status |-> "ok", shape |-> <<Len(deep_log_prob)>>,
             value |-> deep_log_prob]
DeepLogMarginal(base) ==
    LET w == UnsqueezeLast(QuadWeightGrid) IN
    IF ~Broadcastable(MatShape(w), MatShape(base))
    THEN [status |-> "RuntimeError", shape |-> <<>>, value |-> <<>>]
    ELSE LET deep_log_marginal == BroadcastAdd(w, base)
             deep_log_prob == LogSumExpDim(deep_log_marginal, -2)
         IN [status |-> "ok", shape |-> <<Len(deep_log_prob)>>,
             value |-> deep_log_prob]

MultitaskDeepLogMarginal(base) ==
    LET w == UnsqueezeLast(QuadWeightGrid) IN
    IF ~Broadcastable(MatShape(w), MatShape(base))
    THEN [status |-> "RuntimeError", shape |-> <<>>, value |-> <<>>]
    ELSE LET deep_log_marginal == BroadcastAdd(w, base)
             deep_log_prob == LogSumExpDim(deep_log_marginal, -2)
         IN [status |-> "ok", shape |-> <<Len(deep_log_prob)>>,
             value |-> deep_log_prob]

\* The base likelihood's per-site log marginals the model enumerates: a
\* sites x N matrix of log densities, one per seed.
BaseLogMarginal(sites, n, seed) ==
    Mat(sites, n, LAMBDA k, j: Rat(1 + ((seed * k + 2 * j) % 3), 4))
BaseSeeds == {1, 2}

\* lmRes holds the outcome of log_marginal until the caller has taken it.
LogMarginal(base) ==
    /\ likState = "ok"
    /\ lmRes.status = "none"
    /\ LET r == IF likClass = "DeepPredictiveGaussianLikelihood"
                THEN DeepLogMarginal(base)
                ELSE MultitaskDeepLogMarginal(base)
       IN lmRes' = [status |-> r.status, shape |-> r.shape, value |-> r.value,
                    base |-> base, weights |-> QuadWeightGrid]
    /\ UNCHANGED <<assertsOn, debug, layerVars, callVars, likState, likClass,
                   likDims, likSites, likStrategy, raw_quad_weight_grid, klVars>>

ReturnLm ==
    /\ lmRes.status # "none"
    /\ lmRes' = NoLm
    /\ UNCHANGED <<assertsOn, debug, layerVars, callVars, likState, likClass,
                   likDims, likSites, likStrategy, raw_quad_weight_grid, klVars>>

(***************************************************************************)
(* Initial states and the layer's two state machines                       *)
(***************************************************************************)
NoMemo == [has |-> FALSE, list |-> <<>>]
NoFirst == [has |-> FALSE, list |-> <<>>, approx |-> {}, at |-> 0]
NoKl == [has |-> FALSE, value |-> 0, list |-> <<>>]

InitLayerVars ==
    /\ layerState = "none"
    /\ grid_strategy = "flipgrid"
    /\ num_sample_sites = 3
    /\ sample_site_dims = 1
    /\ input_dims = 1
    /\ output_dims = NoneDims
    /\ xi = NoXi
    /\ xiInit = NoXi
    /\ xiShared = FALSE
    /\ trainSteps = 0
    /\ qgRead = NoRead
    /\ callRes = NoCall

InitLikVars ==
    /\ likState = "none"
    /\ likClass = "DeepPredictiveGaussianLikelihood"
    /\ likDims = 1
    /\ likSites = 3
    /\ likStrategy = "flipgrid"
    /\ raw_quad_weight_grid = <<>>
    /\ lmRes = NoLm

InitKlVars ==
    /\ children = [m \in {0} |-> <<>>]
    /\ isApproxGP = [m \in {0} |-> FALSE]
    /\ klOf = [m \in {0} |-> 0]
    /\ memo = NoMemo
    /\ firstRead = NoFirst
    /\ klRes = NoKl
    /\ mutations = 0

\* No object exists yet.  Whether assert statements run is fixed when the
\* interpreter starts; settings.debug is on by default.
Init ==
    /\ assertsOn \in BOOLEAN
    /\ debug = TRUE
    /\ InitLayerVars
    /\ InitLikVars
    /\ InitKlVars

LayerArgsOk(inDims, ssdArg) ==
    /\ inDims \in 1..(MaxT + 1)
    /\ ssdArg \in {NoneDims} \cup (1..MaxT)
    /\ ssdArg = NoneDims => inDims <= MaxT

AnyLayerInit ==
    /\ layerState = "none"
    /\ \E strategy \in Strategies, q \in 0..MaxQ, inDims \in 1..(MaxT + 1),
       ssdArg \in {NoneDims} \cup (1..MaxT), outDims \in {NoneDims, 2},
       shared \in BOOLEAN, seed \in RandnSeeds :
        /\ LayerArgsOk(inDims, ssdArg)
        /\ strategy # "freeform" \/ shared => seed = 1
        /\ LayerInit(strategy, q, inDims, ssdArg, outDims, shared, seed)

AnyTrainXi == layerState = "ok" /\ trainSteps < MaxTrain /\ \E k \in 1..MaxQ, j \in 1..MaxT : TrainXi(k, j)

AnyCall ==
    /\ layerState = "ok"
    /\ callRes.status = "none"
    /\ \E inp \in CallInputs, expand \in BOOLEAN :
        \E others \in OtherInputs(BatchOf(inp)) : Call(inp, others, expand)

AnySetDebug == \E b \in BOOLEAN : SetDebug(b)

\* One layer: construction, training of xi, reads of quad_grid
NextLayer == AnyLayerInit \/ AnyTrainXi \/ ReadQuadGrid
SpecLayer == Init /\ [][NextLayer]_vars

\* One layer: construction and calls
NextCall == AnyLayerInit \/ AnySetDebug \/ AnyCall \/ Return
SpecCall == Init /\ [][NextCall]_vars

AnyLikLayerInit ==
    /\ layerState = "none"
    /\ \E strategy \in Strategies, q \in 0..MaxQ, t \in 1..MaxT,
          shared \in BOOLEAN, seed \in RandnSeeds :
        /\ strategy # "freeform" \/ shared => seed = 1
        /\ LayerInit(strategy, q, t, NoneDims, NoneDims, shared, seed)

AnyLikInit ==
    /\ likState = "none"
    /\ \E class \in LikClasses, dims \in 1..MaxT, q \in 0..MaxQ,
          strategy \in Strategies, seed \in RandnSeeds :
        /\ strategy # "freeform" => seed = 1
        /\ LikInit(class, dims, q, strategy, seed)

AnyTrainWeights ==
    /\ likState = "ok"
    /\ trainSteps < MaxTrain
    /\ \E k \in 1..MaxQ : TrainWeights(k)

AnyLogMarginal ==
    /\ likState = "ok"
    /\ lmRes.status = "none"
    /\ \E n \in 1..MaxN, seed \in BaseSeeds, extra \in {0, 1} :
        LogMarginal(BaseLogMarginal(Len(raw_quad_weight_grid) + extra, n, seed))

\* One layer and one likelihood: construction and reads of the grid
NextLik == AnyLikLayerInit \/ ReadQuadGrid \/ AnyLikInit
SpecLik == Init /\ [][NextLik]_vars

\* One likelihood: construction, training of the weights, log_marginal
NextMarginal == AnyLikInit \/ AnyTrainWeights \/ AnyLogMarginal \/ ReturnLm
SpecMarginal == Init /\ [][NextMarginal]_vars

(***************************************************************************)
(* AbstractDeepGP and _DeepGPVariationalStrategy                           *)
(*                                                                         *)
(* Module 0 is the container.  children[m] is the ordered _modules of      *)
(* module m; a module may be registered under several parents.  klOf[m],   *)
(* in halves, is what m.variational_strategy.kl_divergence().sum() would   *)
(* return now.  A strategy is named by the module that owns it.            *)
(***************************************************************************)
Range(f) == {f[i] : i \in DOMAIN f}
KLValues == {3, 5}

\* self.model.modules(): the container and everything nested in it, in
\* pre-order, each module object once (torch.nn.Module.named_modules keeps
\* a memo of the modules it has yielded).
RECURSIVE Visit(_, _)
Visit(todo, out) ==
    IF todo = <<>> THEN out
    ELSE LET m == Head(todo) IN
         IF m \in Range(out) THEN Visit(Tail(todo), out)
         ELSE Visit(children[m] \o Tail(todo), Append(out, m))
RECURSIVE VisitAll(_, _)
VisitAll(todo, out) ==
    IF todo = <<>> THEN out
    ELSE LET m == Head(todo) IN VisitAll(children[m] \o Tail(todo), Append(out, m))
ModulesRepeated == VisitAll(<<0>>, <<>>)
Modules == Visit(<<0>>, <<>>)

\* [module.variational_strategy for module in self.model.modules()
\*  if isinstance(module, ApproximateGP)]
RECURSIVE SelectApprox(_)
SelectApprox(ms) ==
    IF ms = <<>> THEN <<>>
    ELSE IF isApproxGP[Head(ms)] THEN <<Head(ms)>> \o SelectApprox(Tail(ms))
    ELSE SelectApprox(Tail(ms))
Discover == SelectApprox(Modules)

\* the property sub_variational_strategies: the memo, filled on first use
SubVariationalStrategiesNoMemo == Discover
SubVariationalStrategies == IF memo.has THEN memo.list ELSE Discover

\* The modules nested in the container now, as a set: the least set that holds
\* the container and the children of its members.
RECURSIVE Closure(_)
Closure(S) ==
    LET T == S \cup UNION {Range(children[m]) : m \in S}
    IN IF T = S THEN S ELSE Closure(T)
Nested == Closure({0})
Descendants(m) == Closure({m})
ApproxNow == {m \in Nested : isApproxGP[m]}

RECURSIVE SetSum(_)
SetSum(S) ==
    IF S = {} THEN 0
    ELSE LET m == CHOOSE x \in S : TRUE IN klOf[m] + SetSum(S \ {m})

FirstReadAfter(list) ==
    IF firstRead.has THEN firstRead
    ELSE [has |-> TRUE, list |-> list, approx |-> ApproxNow, at |-> mutations]

ReadSubStrategies ==
    /\ memo' = [has |-> TRUE, list |-> SubVariationalStrategies]
    /\ firstRead' = FirstReadAfter(SubVariationalStrategies)
    /\ UNCHANGED <<assertsOn, debug, layerVars, callVars, likVars,
                   children, isApproxGP, klOf, klRes, mutations>>

\* sum(strategy.kl_divergence().sum() for strategy in
\*     self.sub_variational_strategies)
KlDivergence ==
    LET list == SubVariationalStrategies IN
    /\ memo' = [has |-> TRUE, list |-> list]
    /\ firstRead' = FirstReadAfter(list)
    /\ klRes' = [has |-> TRUE,
                 value |-> SumSeq([i \in 1..Len(list) |-> klOf[list[i]]]),
                 list |-> list]
    /\ UNCHANGED <<assertsOn, debug, layerVars, callVars, likVars,
                   children, isApproxGP, klOf, mutations>>

\* parent.add_module(name, <a new module>); klRes is the value of the last
\* kl_divergence() since the container or a KL term last changed.
AddModule(parent, approx, kl) ==
    LET id == Cardinality(DOMAIN children) IN
    /\ id <= MaxModules
    /\ mutations < MaxMutations
    /\ parent \in Nested
    /\ children' = [m \in DOMAIN children \cup {id} |->
                      IF m = id THEN <<>>
                      ELSE IF m = parent THEN Append(children[m], id)
                      ELSE children[m]]
    /\ isApproxGP' = [m \in DOMAIN children \cup {id} |->
                        IF m = id THEN approx ELSE isApproxGP[m]]
    /\ klOf' = [m \in DOMAIN children \cup {id} |->
                  IF m = id THEN kl ELSE klOf[m]]
    /\ mutations' = mutations + 1
    /\ klRes' = NoKl
    /\ UNCHANGED <<assertsOn, debug, layerVars, callVars, likVars, memo, firstRead>>

\* parent.add_module(name, m) for a module m already nested elsewhere
ShareModule(parent, m) ==
    /\ mutations < MaxMutations
    /\ parent \in Nested
    /\ m \in Nested \ {0}
    /\ parent \notin Descendants(m)
    /\ m \notin Range(children[parent])
    /\ children' = [children EXCEPT ![parent] = Append(@, m)]
    /\ mutations' = mutations + 1
    /\ klRes' = NoKl
    /\ UNCHANGED <<assertsOn, debug, layerVars, callVars, likVars,
                   isApproxGP, klOf, memo, firstRead>>

\* del parent._modules[name]
RemoveModule(parent, idx) ==
    /\ mutations < MaxMutations
    /\ parent \in Nested
    /\ idx \in 1..Len(children[parent])
    /\ children' = [children EXCEPT ![parent] =
                       SubSeq(@, 1, idx - 1) \o SubSeq(@, idx + 1, Len(@))]
    /\ mutations' = mutations + 1
    /\ klRes' = NoKl
    /\ UNCHANGED <<assertsOn, debug, layerVars, callVars, likVars,
                   isApproxGP, klOf, memo, firstRead>>

\* Training changes the KL term of a layer.
SetKL(m, kl) ==
    /\ m \in DOMAIN children
    /\ isApproxGP[m]
    /\ klOf[m] # kl
    /\ klOf' = [klOf EXCEPT ![m] = kl]
    /\ klRes' = NoKl
    /\ UNCHANGED <<assertsOn, debug, layerVars, callVars, likVars,
                   children, isApproxGP, memo, firstRead, mutations>>

AnyAddModule ==
    \E parent \in 0..MaxModules, approx \in BOOLEAN, kl \in KLValues :
        /\ ~approx => kl = 3
        /\ AddModule(parent, approx, IF approx THEN kl ELSE 0)
AnyShareModule == \E parent \in 0..MaxModules, m \in 1..MaxModules : ShareModule(parent, m)
AnyRemoveModule == \E parent \in 0..MaxModules, idx \in 1..MaxModules : RemoveModule(parent, idx)
AnySetKL == \E m \in 1..MaxModules, kl \in KLValues : SetKL(m, kl)

\* One container: structural changes, training, reads of the sub-strategies
NextKL ==
    \/ AnyAddModule
    \/ AnyShareModule
    \/ AnyRemoveModule
    \/ AnySetKL
    \/ ReadSubStrategies
    \/ KlDivergence
SpecKL == Init /\ [][NextKL]_vars

(***************************************************************************)
(* Properties of the layer                                                 *)
(***************************************************************************)
GridStrategies == {"flipgrid", "freegrid"}
Neg(p) == [d \in 1..Len(p) |-> 0 - p[d]]

\* The number of sites of the layer's quadrature grid
Sites ==
    IF grid_strategy = "freeform" THEN num_sample_sites
    ELSE Pow(num_sample_sites, sample_site_dims)

\* C1: on a flipgrid or freegrid layer of order Q >= 1 and sample-site
\* dimension T >= 1, every read of quad_grid succeeds (the size assertion in
\* it does not fail or raise) and returns exactly Q^T points of length T.
C1_QuadGridReadSucceeds ==
    (/\ qgRead.status # "none"
     /\ grid_strategy \in GridStrategies
     /\ num_sample_sites >= 1
     /\ sample_site_dims >= 1)
    => /\ qgRead.status = "ok"
       /\ Len(qgRead.value) = Pow(num_sample_sites, sample_site_dims)
       /\ \A i \in 1..Len(qgRead.value) : Len(qgRead.value[i]) = sample_site_dims

\* The abscissa the grid uses in dimension d at index i: coordinate d of the
\* point whose other indices are all the first.
GridAbscissa(g, d, i) ==
    g[1 + (i - 1) * Pow(num_sample_sites, sample_site_dims - d)][d]

\* C5: a flipgrid layer whose xi still has the value __init__ computed (0.5
\* times the Gauss-Hermite nodes, in every column) has a grid symmetric about
\* zero: in every dimension the transformed abscissae satisfy
\* v[i] = -v[Q-1-i], and the negation of every grid point is a grid point.
C5_FlipgridSymmetric ==
    (/\ qgRead.status = "ok"
     /\ grid_strategy = "flipgrid"
     /\ ~xiShared
     /\ qgRead.xi = xiInit)
    => LET g == qgRead.value
           Q == num_sample_sites
       IN /\ \A d \in 1..sample_site_dims : \A i \in 1..Q :
                GridAbscissa(g, d, i) = 0 - GridAbscissa(g, d, Q + 1 - i)
          /\ \A i \in 1..Len(g) : \E j \in 1..Len(g) : g[j] = Neg(g[i])

\* C5 witness: the grid of an untrained flipgrid layer of order 3 in 2
\* dimensions was read, and its first point is not the origin.
C5_Witness ==
    /\ qgRead.status = "ok"
    /\ grid_strategy = "flipgrid"
    /\ ~xiShared
    /\ qgRead.xi = xiInit
    /\ num_sample_sites = 3
    /\ sample_site_dims = 2
    /\ Len(qgRead.value) = 9
    /\ qgRead.value[1] # Neg(qgRead.value[1])

\* C6: a layer with num_sample_sites = 0 and no shared xi can be constructed
\* under each grid strategy, and its call on a tensor returns a plain tensor.
C6_NoiselessLayerWorks ==
    /\ (layerState # "none" /\ num_sample_sites = 0 /\ ~xiShared)
          => layerState = "ok"
    /\ (/\ layerState = "ok" /\ num_sample_sites = 0 /\ ~xiShared
        /\ callRes.status # "none"
        /\ callRes.inKind = "tensor"
        /\ callRes.others = <<>>
        /\ Last(callRes.inShape) = input_dims
        /\ output_dims # NoneDims)
          => callRes.status = "ok" /\ callRes.outKind = "Tensor"

\* C7: in debug mode a call whose final input tensor (after the quadrature
\* expansion and the concatenation of other_inputs) has a feature size other
\* than input_dims raises the shape-mismatch error, whose message names the
\* observed and the expected size, before the GP posterior is invoked; with
\* debug mode off the checks raise nothing.
C7_DebugShapeCheck ==
    /\ (/\ callRes.reachedCheck
        /\ callRes.dbg
        /\ callRes.finalIsTensor
        /\ Last(callRes.finalShape) # input_dims)
          => /\ callRes.status = "RuntimeError"
             /\ callRes.stage = "debug_shape"
             /\ callRes.msgGot = Last(callRes.finalShape)
             /\ callRes.msgExpected = input_dims
             /\ ~callRes.gpInvoked
    /\ (callRes.status # "none" /\ ~callRes.dbg)
          => callRes.stage \notin {"debug_type", "debug_shape"}

\* C7 witness: a distribution input was expanded over the grid, other inputs
\* were concatenated, and the debug check rejected the resulting feature size.
C7_Witness ==
    /\ callRes.dbg
    /\ callRes.inKind = "mvn"
    /\ callRes.gridStatus = "ok"
    /\ callRes.catDone
    /\ callRes.reachedCheck
    /\ Last(callRes.finalShape) # input_dims
    /\ callRes.status = "RuntimeError"
    /\ callRes.msgGot = sample_site_dims + 1
    /\ callRes.msgExpected = input_dims

\* C8: in debug mode, without other_inputs, an input that is neither a
\* MultitaskMultivariateNormal nor a tensor ends the call with the ValueError
\* whose message names the type of the input.
C8_WrongTypeRaisesValueError ==
    (/\ callRes.status # "none"
     /\ callRes.dbg
     /\ callRes.others = <<>>
     /\ callRes.inKind = "other")
    => callRes.status = "ValueError" /\ callRes.msgNamesType

\* C9: with a distribution input and other_inputs of batch size N, each other
\* input is expanded over the number of sites of the grid (Q^T for flipgrid
\* and freegrid, Q for freeform), so that for Q >= 1 and T >= 1 the
\* concatenation succeeds with shape (sites, N, T + extra feature dims).
\* Stated for the calls whose read of quad_grid returned.
C9_OtherInputsExpandToSites ==
    (/\ callRes.status # "none"
     /\ callRes.inKind = "mvn"
     /\ Len(callRes.others) >= 1
     /\ callRes.gridStatus = "ok"
     /\ num_sample_sites >= 1
     /\ callRes.inShape[2] = sample_site_dims)
    => /\ callRes.catDone
       /\ callRes.catShape =
            <<Sites, callRes.inShape[1],
              sample_site_dims
                + SumSeq([i \in 1..Len(callRes.others) |-> Last(callRes.others[i])])>>

(***************************************************************************)
(* Properties of the likelihoods                                           *)
(***************************************************************************)
\* The index, in dimension d, of site i of a grid of order Q in T dimensions
\* enumerated lexicographically (last dimension fastest); all 1-based.
Digit(i, d, Q, T) == (((i - 1) \div Pow(Q, T - d)) % Q) + 1

\* C2: for a layer and a likelihood of the same order Q >= 1 and dimension
\* T >= 1, both with strategy flipgrid or freegrid, the raw log-weight vector
\* has Q^T entries and matches the grid index for index: site i is the point
\* of the per-dimension abscissae with indices (k_1, ..., k_T) and its log
\* weight is the sum over d of log(w[k_d]), for the same tuple, the tuples
\* in lexicographic order.
C2_WeightsAlignedWithGrid ==
    (/\ layerState = "ok"
     /\ likState = "ok"
     /\ grid_strategy \in GridStrategies
     /\ likStrategy \in GridStrategies
     /\ num_sample_sites >= 1
     /\ likSites = num_sample_sites
     /\ likDims = sample_site_dims)
    => LET Q == num_sample_sites
           T == sample_site_dims
           logw == NpLog(HermgaussW(Q))
           x == qgRead.xi.d
           v(k, d) == IF grid_strategy = "flipgrid"
                      THEN x[k][d] - x[Q + 1 - k][d]
                      ELSE x[k][d]
       IN /\ Len(raw_quad_weight_grid) = Pow(Q, T)
          /\ \A i \in 1..Pow(Q, T) :
                raw_quad_weight_grid[i]
                   = LogSumSeq([d \in 1..T |-> logw[Digit(i, d, Q, T)]])
          /\ qgRead.status = "ok" =>
                /\ Len(qgRead.value) = Pow(Q, T)
                /\ \A i \in 1..Pow(Q, T) :
                      qgRead.value[i] = [d \in 1..T |-> v(Digit(i, d, Q, T), d)]

\* C2 witness: a layer and a likelihood of order 3 in 2 dimensions, the grid
\* read; sites 2 and 4 are mirror images with different points, and weights
\* differ between sites.
C2_Witness ==
    /\ layerState = "ok"
    /\ likState = "ok"
    /\ grid_strategy \in GridStrategies
    /\ likStrategy \in GridStrategies
    /\ num_sample_sites = 3 /\ sample_site_dims = 2
    /\ likSites = 3 /\ likDims = 2
    /\ qgRead.status = "ok"
    /\ Len(qgRead.value) = 9
    /\ Len(raw_quad_weight_grid) = 9
    /\ qgRead.value[2] # qgRead.value[4]
    /\ raw_quad_weight_grid[1] # raw_quad_weight_grid[2]

\* C3: for both likelihood classes, given a base log marginal of shape
\* (sites x N) and the normalized log weights of length sites, log_marginal
\* returns one value per observation n, shape (N,): the logsumexp over the
\* sites of normalized_log_weight[site] + site_log_marginal[site, n].
C3_LogMarginalReducesSites ==
    (/\ lmRes.status # "none"
     /\ lmRes.base.rows = Len(lmRes.weights))
    => /\ lmRes.status = "ok"
       /\ lmRes.shape = <<lmRes.base.cols>>
       /\ Len(lmRes.value) = lmRes.base.cols
       /\ \A n \in 1..lmRes.base.cols :
             lmRes.value[n]
                = LogSumExpSeq([st \in 1..lmRes.base.rows |->
                                  LogAdd(lmRes.weights[st], lmRes.base.d[st][n])])

\* C3 witness: the multitask likelihood reduced a 9 x 2 base log marginal to
\* two different values.
C3_Witness ==
    /\ lmRes.status = "ok"
    /\ likClass = "MultitaskDeepPredictiveGaussianLikelihood"
    /\ Len(lmRes.weights) = 9
    /\ lmRes.base.rows = 9
    /\ lmRes.base.cols = 2
    /\ lmRes.shape = <<2>>
    /\ lmRes.value[1] # lmRes.value[2]

(***************************************************************************)
(* Properties of the container                                             *)
(***************************************************************************)
\* C4: kl_divergence() of the container is the sum of the KL terms of the
\* ApproximateGP modules nested in it, at any depth, each exactly once and
\* nothing else.
C4_KlSumsNestedLayers ==
    klRes.has => klRes.value = SetSum(ApproxNow)

\* C4, amended: kl_divergence() is the sum of the KL terms of the
\* ApproximateGP modules that were nested in the container, at any depth,
\* when sub_variational_strategies was first read, each exactly once and
\* nothing else; it is the sum over the modules nested now whenever the
\* container's structure has not changed since that first read.
C4_KlSumsLayersOfFirstRead ==
    klRes.has =>
        /\ firstRead.has
        /\ klRes.value = SetSum(firstRead.approx)
        /\ mutations = firstRead.at => klRes.value = SetSum(ApproxNow)

\* C4 witness: two layers with KL 1.5 and 2.5, one of them nested below the
\* top level, aggregate to 4.0.
C4_Witness ==
    /\ klRes.has
    /\ klRes.value = 8
    /\ Cardinality(ApproxNow) = 2
    /\ mutations = firstRead.at
    /\ \E m \in ApproxNow : m \notin Range(children[0])
    /\ {klOf[m] : m \in ApproxNow} = {3, 5}

\* C10: the collection of sub-strategies is discovered on the first read and
\* kept: every later read returns the collection of the first read, whatever
\* layers were added or removed in between, and kl_divergence sums exactly
\* those layers.
C10_MemoKeepsFirstRead ==
    /\ memo.has => firstRead.has /\ memo.list = firstRead.list
    /\ klRes.has => klRes.list = firstRead.list

\* C10 witness: after the first read the container changed, so that the
\* layers nested now are not those of the memo, and kl_divergence ran again.
C10_Witness ==
    /\ memo.has
    /\ klRes.has
    /\ mutations > firstRead.at
    /\ Range(memo.list) # ApproxNow
    /\ Len(memo.list) >= 1

====
